---- MODULE Spec2Model ----
(***************************************************************************)
(* Analysis Session Engine of the squash dashboard.                        *)
(*                                                                         *)
(* The model follows src/frontend/app/analysis/page.tsx (AnalysisPage,     *)
(* handleRun, toggleFile) and src/frontend/components/analysis/            *)
(* query-input.tsx (the Run button and the Ctrl/Cmd+Enter key handler).    *)
(* The Stage Choreographer is AnalysisLoading (src/unnamed/part_003); the  *)
(* history route is HistoryPage and HistoryDetailPage (app/history/        *)
(* page.tsx), HistoryList and the OpportunitiesTab of analysis-results.tsx.*)
(* The history hook (useAnalysisHistory), generateId and runQuery are      *)
(* imported by the page from lib/ and are modelled from spec.md.           *)
(***************************************************************************)
EXTENDS Integers, Sequences, FiniteSets, TLC

\* ------------------------------------------------------------------ bounds
\* handleRun invocations (blank or not) explored per page instance
MaxCalls == 2

\* ------------------------------------------------------------ value domains
Null == "null"

\* Query texts, as sequences of characters (so that trim() can be computed)
Queries == { <<>>, <<" ", " ">>, <<" ", "a">> }

\* Names of the uploaded documents offered by the file selector
Files == { "a.pdf" }

\* Readings of the wall clock that Date.now() may return
Times == { 1000 }

\* AnalysisResult values the remote pipeline may return (opaque to the core)
Results == { "r1", "r2" }

\* Values a rejected runQuery promise may carry: an Error with a message,
\* or a thrown value that is not an Error
NoErr == [isError |-> FALSE, message |-> ""]
RemoteErrors == { [isError |-> TRUE, message |-> "Network error"],
                  [isError |-> FALSE, message |-> "raw"] }

\* PersistenceError raised by addEntry when the durable store is unavailable
PersistenceErrors == { [isError |-> TRUE, message |-> "Storage full"] }

\* How one runQuery call may settle
Outcomes ==
    { [ok |-> TRUE, val |-> v, err |-> NoErr] : v \in Results }
    \cup { [ok |-> FALSE, val |-> Null, err |-> e] : e \in RemoteErrors }

\* How one addEntry call may end
StoreOutcomes ==
    { [ok |-> TRUE, err |-> NoErr] }
    \cup { [ok |-> FALSE, err |-> e] : e \in PersistenceErrors }

StoreOk == [ok |-> TRUE, err |-> NoErr]

VARIABLES
    query,          \* useState("")            page.tsx:17
    selectedFiles,  \* useState<string[]>([])  page.tsx:18
    isRunning,      \* useState(false)         page.tsx:19
    result,         \* useState(null)          page.tsx:20
    disposed,       \* the page instance has been unmounted
    pending,        \* runQuery promises not yet settled, with the closure of handleRun
    requests,       \* number of runQuery calls made so far
    history,        \* the History Cache, newest first
    nextId,         \* source of generateId()
    emitted,        \* toasts raised by the last step
    calls,          \* history variable: handleRun invocations so far
    accepted,       \* history variable: handleRun invocations that passed the blank check
    resultRun,      \* history variable: the run whose response is held in result (0: none)
    last,           \* history variable: the settlement handled by the last step, if any
    currentStep,    \* let currentStep / useState(0) of AnalysisLoading   part_003:28,32
    timer,          \* a timeout of AnalysisLoading is armed              part_003:31
    detailId,       \* the id parameter of the mounted /history/[id] page (0: not mounted)
    tabOpen,        \* the Opportunities tab of the detail page is selected
    sortField,      \* useState<SortField>("rice_score")   analysis-results.tsx:82
    sortAsc,        \* useState(false)                     analysis-results.tsx:83
    heap,           \* the all_opportunities array of each AnalysisResult object
    created,        \* history variable: the entries added so far, as they were created
    storage,        \* the durable local store: the serialized history
    sorted          \* const sorted of the mounted OpportunitiesTab (<<>>: none)

\* The Stage Choreographer (AnalysisLoading)
stageVars == << currentStep, timer >>

\* The history route: HistoryDetailPage and its OpportunitiesTab
routeVars == << detailId, tabOpen, sortField, sortAsc, heap, sorted >>

vars == << query, selectedFiles, isRunning, result, disposed, pending, requests,
           history, nextId, emitted, calls, accepted, resultRun, last, stageVars,
           routeVars, created, storage >>

\* ------------------------------------------------------------ pure helpers
IsSpace(c) == c = " "

RECURSIVE TrimStart(_)
TrimStart(s) ==
    IF s = <<>> THEN <<>>
    ELSE IF IsSpace(Head(s)) THEN TrimStart(Tail(s))
    ELSE s

RECURSIVE TrimEnd(_)
TrimEnd(s) ==
    IF s = <<>> THEN <<>>
    ELSE IF IsSpace(s[Len(s)]) THEN TrimEnd(SubSeq(s, 1, Len(s) - 1))
    ELSE s

\* String.prototype.trim
Trim(s) == TrimEnd(TrimStart(s))

Includes(s, x) == \E i \in 1..Len(s) : s[i] = x

RECURSIVE Filter(_, _)
\* prev.filter((f) => f !== x)
Filter(s, x) ==
    IF s = <<>> THEN <<>>
    ELSE IF Head(s) = x THEN Filter(Tail(s), x)
    ELSE <<Head(s)>> \o Filter(Tail(s), x)

NoSettle == [op |-> "none", rid |-> 0, out |-> [ok |-> FALSE, val |-> Null, err |-> NoErr],
             st |-> StoreOk]

PendingRids == { r.rid : r \in pending }

\* ------------------------------------------------- Query Execution Controller
\* if (!query.trim()) return;   -- the blank check of handleRun
CanRunUntrimmed(q) == q # <<>>
CanRun(q) == Trim(q) # <<>>

\* disabled={!query.trim() || isRunning}   -- the Run button
ButtonDisabled == Trim(query) = <<>> \/ isRunning

\* toggleFile's updater
ToggleAppendOnly(prev, f) == Append(prev, f)
Toggle(prev, f) == IF Includes(prev, f) THEN Filter(prev, f) ELSE Append(prev, f)

\* generateId(): a fresh opaque identifier
GenerateId == nextId

\* The entry handed to addEntry; query and selectedFiles are the values the
\* closure of handleRun captured when it was invoked
NewEntryLiveFiles(run, response, t) ==
    [id |-> GenerateId, query |-> run.query, files |-> selectedFiles,
     timestamp |-> t, result |-> response]
NewEntryLiveState(run, response, t) ==
    [id |-> GenerateId, query |-> query, files |-> selectedFiles,
     timestamp |-> t, result |-> response]
NewEntryIdFromClock(run, response, t) ==
    [id |-> t, query |-> run.query, files |-> run.files,
     timestamp |-> t, result |-> response]
NewEntry(run, response, t) ==
    [id |-> GenerateId, query |-> run.query, files |-> run.files,
     timestamp |-> t, result |-> response]

\* addEntry(entry): inserts at the head of the enumeration order
AddEntry(h, e) == <<e>> \o h

\* err instanceof Error ? err.message : "Analysis failed"
ErrorTextGeneric(err) == "Analysis failed"
ErrorText(err) == IF err.isError THEN err.message ELSE "Analysis failed"

ToastSuccess == [kind |-> "success", text |-> "Analysis complete"]
ToastError(err) == [kind |-> "error", text |-> ErrorText(err)]

\* The value the try block has given to result when it is left:
\* setResult(response) runs as soon as runQuery resolves, before addEntry
ResultAfterTryIfSaved(out, st) == IF out.ok /\ st.ok THEN out.val ELSE result
ResultAfterTry(out, st) == IF out.ok THEN out.val ELSE result

\* Whether control reaches addEntry: only when runQuery resolved
ReachesAddEntryAlways(out) == TRUE
ReachesAddEntry(out) == out.ok

\* The toasts of the try and catch blocks: toast.success is the last statement
\* of the try block, toast.error the only one of the catch block
ToastsOf(out, st) ==
    IF out.ok /\ st.ok THEN << ToastSuccess >>
    ELSE << ToastError(IF out.ok THEN st.err ELSE out.err) >>

\* finally { setIsRunning(false) }
IsRunningAfterSettleTryOnly(out, st) == ~(out.ok /\ st.ok)
IsRunningAfterSettle(out, st) == FALSE

\* runQuery calls made by the catch and finally blocks: none
RequestsAfterSettleRetry(out) == IF out.ok THEN requests ELSE requests + 1
RequestsAfterSettle(out) == requests

\* ---------------------------------------------------------- Stage Choreographer
\* PIPELINE_NODES.length: one stage per entry of STEP_DURATIONS
NumStages == 6

\* let currentStep = 0 / useState(0): the stage a mounted AnalysisLoading starts at
MountStep == 0

\* if (currentStep < PIPELINE_NODES.length - 1)
CanAdvanceOffByOne(s) == s < NumStages
CanAdvance(s) == s < NumStages - 1

\* currentStep++
NextStepSkipping(s) == s + 2
NextStep(s) == s + 1

\* return () => clearTimeout(timeout): whether a timeout stays armed after the
\* effect's cleanup ran on a component whose timeout state was t
CleanupLeaking(t) == t
Cleanup(t) == FALSE

\* ------------------------------------------------------------- History Cache
\* The ids of the entries of a history list
Ids(h) == { h[i].id : i \in 1..Len(h) }

\* What a lookup yields when no entry matches
Undefined == <<>>

\* getEntry(id): the first entry with that id, wrapped, or Undefined
GetEntry(h, id) ==
    IF id \in Ids(h)
    THEN << h[CHOOSE i \in 1..Len(h) :
                /\ h[i].id = id
                /\ \A j \in 1..(i - 1) : h[j].id # id] >>
    ELSE Undefined

RECURSIVE RemoveEntry(_, _)
\* removeEntry(id): deletes the entry with the given id
RemoveEntry(h, id) ==
    IF h = <<>> THEN <<>>
    ELSE IF Head(h).id = id THEN RemoveEntry(Tail(h), id)
    ELSE <<Head(h)>> \o RemoveEntry(Tail(h), id)

\* clearHistory(): deletes all entries
ClearHistory(h) == <<>>

\* onRemove(entry.id) of the card at position i of the rendered list
RemoveArgIndex(h, i) == i
RemoveArg(h, i) == h[i].id

\* The durable store holds the history as one serialized collection
Serialize(h) == [i \in 1..Len(h) |-> << "json", h[i] >>]

\* The lazy read of the durable store on first access after a (re)load
LoadHistoryEmpty(blob) == <<>>
LoadHistory(blob) == [i \in 1..Len(blob) |-> blob[i][2]]

ToastCleared == [kind |-> "success", text |-> "History cleared"]

\* history.map((entry) => <Card key={entry.id} ...>): the cards of HistoryList,
\* in the order of the array
RECURSIVE InsertByTimestamp(_, _)
InsertByTimestamp(s, e) ==
    IF s = <<>> THEN << e >>
    ELSE IF Head(s).timestamp >= e.timestamp THEN <<Head(s)>> \o InsertByTimestamp(Tail(s), e)
    ELSE <<e>> \o s
RECURSIVE ByTimestamp(_)
ByTimestamp(h) ==
    IF h = <<>> THEN <<>>
    ELSE InsertByTimestamp(ByTimestamp(SubSeq(h, 1, Len(h) - 1)), h[Len(h)])
ListShownByTimestamp(h) == [i \in 1..Len(h) |-> ByTimestamp(h)[i].id]
ListShown(h) == [i \in 1..Len(h) |-> h[i].id]

\* history.slice(0, 5) of RecentAnalyses
MaxRecent == 5
Recent(h) == SubSeq(h, 1, IF Len(h) < MaxRecent THEN Len(h) ELSE MaxRecent)

\* history.length > 0 ? <HistoryList .../> : <EmptyHistory />
HistoryPageViewAlwaysList(h) == [kind |-> "list", ids |-> ListShown(h)]
HistoryPageView(h) ==
    IF Len(h) > 0 THEN [kind |-> "list", ids |-> ListShown(h)]
    ELSE [kind |-> "empty", ids |-> <<>>]

\* HistoryDetailPage: if (!entry) the placeholder, else the entry's result
DetailViewThrowing(found) ==
    IF found = Undefined THEN [kind |-> "error", result |-> Null]
    ELSE [kind |-> "entry", result |-> found[1].result]
DetailView(found) ==
    IF found = Undefined THEN [kind |-> "placeholder", result |-> Null]
    ELSE [kind |-> "entry", result |-> found[1].result]

\* ----------------------------------------------------- Opportunity Ranking View
SortFields == { "name", "rice_score", "confidence" }
InitialSortField == "rice_score"
InitialSortAsc == FALSE

\* rice_score of a ScoredFeature: << >> when absent, << n >> when present
Absent == <<>>

\* The all_opportunities array the pipeline returned in each result object
InitialHeap ==
    [r \in Results |->
        IF r = "r1"
        THEN << [name |-> "B", rice_score |-> <<3>>, confidence |-> "low"],
                [name |-> "a", rice_score |-> <<9>>, confidence |-> "high"],
                [name |-> "c", rice_score |-> Absent, confidence |-> "medium"] >>
        ELSE <<>>]

\* a.rice_score ?? 0
ScoreOrTen(o) == IF o.rice_score = Absent THEN 10 ELSE o.rice_score[1]
ScoreOrZero(o) == IF o.rice_score = Absent THEN 0 ELSE o.rice_score[1]

\* order[a.confidence] ?? 0
ConfidenceOrderAlphabetical(c) ==
    CASE c = "high" -> 1
      [] c = "low" -> 2
      [] c = "medium" -> 3
      [] OTHER -> 0
ConfidenceOrder(c) ==
    CASE c = "high" -> 3
      [] c = "medium" -> 2
      [] c = "low" -> 1
      [] OTHER -> 0

\* a.name.localeCompare(b.name): the locale's collation puts a before B before c
LocaleKey(n) ==
    CASE n = "a" -> 1
      [] n = "B" -> 2
      [] n = "c" -> 3
      [] OTHER -> 4
LocaleCompare(x, y) == LocaleKey(x) - LocaleKey(y)

\* The comparator handed to sort
CompareDescendingOnly(a, b, field, asc) ==
    LET cmp == IF field = "name" THEN LocaleCompare(a.name, b.name)
               ELSE IF field = "rice_score" THEN ScoreOrZero(a) - ScoreOrZero(b)
               ELSE IF field = "confidence"
                    THEN ConfidenceOrder(a.confidence) - ConfidenceOrder(b.confidence)
               ELSE 0
    IN  0 - cmp
Compare(a, b, field, asc) ==
    LET cmp == IF field = "name" THEN LocaleCompare(a.name, b.name)
               ELSE IF field = "rice_score" THEN ScoreOrZero(a) - ScoreOrZero(b)
               ELSE IF field = "confidence"
                    THEN ConfidenceOrder(a.confidence) - ConfidenceOrder(b.confidence)
               ELSE 0
    IN  IF asc THEN cmp ELSE 0 - cmp

RECURSIVE InsertStable(_, _, _, _)
\* x goes behind the last element that the comparator does not put after x
InsertStable(s, x, field, asc) ==
    IF s = <<>> THEN << x >>
    ELSE IF Compare(s[Len(s)], x, field, asc) <= 0 THEN Append(s, x)
    ELSE Append(InsertStable(SubSeq(s, 1, Len(s) - 1), x, field, asc), s[Len(s)])

RECURSIVE SortStable(_, _, _)
\* Array.prototype.sort: a stable sort
SortStable(s, field, asc) ==
    IF s = <<>> THEN <<>>
    ELSE InsertStable(SortStable(SubSeq(s, 1, Len(s) - 1), field, asc), s[Len(s)],
                      field, asc)

\* const sorted = [...opportunities].sort(...)
Rank(opps, field, asc) == SortStable(opps, field, asc)

\* The array passed as opportunities, after the render computed sorted
InputAfterRankInPlace(opps, field, asc) == Rank(opps, field, asc)
InputAfterRank(opps, field, asc) == opps

\* The rows OpportunitiesTab renders: the placeholder (no rows) for an empty
\* list, else sorted
Rendered(opps, field, asc) == IF opps = <<>> THEN <<>> ELSE Rank(opps, field, asc)

\* toggleSort(field)
ToggleSortStateKeepDirection(sf, sa, f) ==
    IF sf = f THEN [field |-> sf, asc |-> ~sa] ELSE [field |-> f, asc |-> sa]
ToggleSortState(sf, sa, f) ==
    IF sf = f THEN [field |-> sf, asc |-> ~sa] ELSE [field |-> f, asc |-> FALSE]

\* An entry as it was when it was added, with the opportunities of its result
AsCreated(e) ==
    [entry |-> e, opps |-> IF e.result \in DOMAIN heap THEN heap[e.result] ELSE <<>>]

\* ------------------------------------------------------------------- Init
Init ==
    /\ query = <<>>
    /\ selectedFiles = <<>>
    /\ isRunning = FALSE
    /\ result = Null
    /\ disposed = FALSE
    /\ pending = {}
    /\ requests = 0
    /\ history = <<>>
    /\ nextId = 1
    /\ emitted = <<>>
    /\ calls = 0
    /\ accepted = 0
    /\ resultRun = 0
    /\ last = NoSettle
    /\ currentStep = MountStep
    /\ timer = FALSE
    /\ detailId = 0
    /\ tabOpen = FALSE
    /\ sortField = InitialSortField
    /\ sortAsc = InitialSortAsc
    /\ heap = InitialHeap
    /\ created = <<>>
    /\ storage = Serialize(<<>>)
    /\ sorted = <<>>

\* ---------------------------------------------------------------- actions
\* onChange of the textarea and the suggestion chips: onQueryChange(text)
SetQuery(q) ==
    /\ ~disposed
    /\ q # query
    /\ query' = q
    /\ emitted' = <<>>
    /\ last' = NoSettle
    /\ UNCHANGED << selectedFiles, isRunning, result, disposed, pending, requests,
                    history, nextId, calls, accepted, resultRun, stageVars,
                    routeVars, created, storage >>

\* onClick of a file chip: onToggleFile(file.name)
ToggleFile(f) ==
    /\ ~disposed
    /\ selectedFiles' = Toggle(selectedFiles, f)
    /\ emitted' = <<>>
    /\ last' = NoSettle
    /\ UNCHANGED << query, isRunning, result, disposed, pending, requests,
                    history, nextId, calls, accepted, resultRun, stageVars,
                    routeVars, created, storage >>

\* handleRun up to its await: the blank check, setIsRunning(true),
\* setResult(null) and the call of runQuery(query, selectedFiles)
HandleRun ==
    /\ calls < MaxCalls
    /\ calls' = calls + 1
    /\ emitted' = <<>>
    /\ last' = NoSettle
    /\ IF ~CanRun(query)
       THEN UNCHANGED << isRunning, result, resultRun, accepted, pending, requests,
                         stageVars >>
       ELSE /\ isRunning' = TRUE
            \* {isRunning && <AnalysisLoading />}: mounted when isRunning turns
            \* true; a component that is already mounted is kept as it is
            /\ IF isRunning
               THEN UNCHANGED stageVars
               ELSE currentStep' = MountStep /\ timer' = TRUE
            /\ result' = Null
            /\ resultRun' = 0
            /\ accepted' = accepted + 1
            /\ pending' = pending \cup
                   { [rid |-> accepted + 1, query |-> query, files |-> selectedFiles] }
            /\ requests' = requests + 1
    /\ UNCHANGED << query, selectedFiles, disposed, history, nextId, routeVars, created,
                    storage >>

\* The Run button: onClick={onRun}, inert while disabled
ClickRun ==
    /\ ~disposed
    /\ ~ButtonDisabled
    /\ HandleRun

\* onKeyDown of the textarea: Enter with metaKey or ctrlKey calls onRun()
KeyRun ==
    /\ ~disposed
    /\ HandleRun

\* handleRun from its await on: the promise of run settles with out; when it
\* resolved, addEntry ends with st. State setters of an unmounted page are
\* dropped; addEntry and the toasts are not tied to the page instance. t is the reading of
\* Date.now() when the entry is built.
Settle(run, out, st, t) ==
    /\ run \in pending
    /\ pending' = pending \ {run}
    /\ IF disposed
       THEN UNCHANGED << result, resultRun, isRunning, timer >>
       ELSE /\ result' = ResultAfterTry(out, st)
            /\ resultRun' = IF result' = result THEN resultRun ELSE run.rid
            /\ isRunning' = IsRunningAfterSettle(out, st)
            \* AnalysisLoading is unmounted when isRunning turns false
            /\ timer' = IF isRunning /\ ~isRunning' THEN Cleanup(timer) ELSE timer
    /\ IF ReachesAddEntry(out)
       THEN /\ nextId' = nextId + 1
            /\ history' = IF st.ok THEN AddEntry(history, NewEntry(run, out.val, t))
                          ELSE history
            /\ created' = IF st.ok THEN Append(created, AsCreated(NewEntry(run, out.val, t)))
                          ELSE created
            /\ storage' = IF st.ok THEN Serialize(history') ELSE storage
       ELSE UNCHANGED << nextId, history, created, storage >>
    /\ emitted' = ToastsOf(out, st)
    /\ requests' = RequestsAfterSettle(out)
    /\ last' = [op |-> "settle", rid |-> run.rid, out |-> out, st |-> st]
    /\ UNCHANGED << query, selectedFiles, disposed, calls, accepted, currentStep,
                    routeVars >>

Resolve ==
    \E run \in pending : \E out \in { o \in Outcomes : o.ok } : \E st \in StoreOutcomes :
        \E t \in (IF st.ok THEN Times ELSE { CHOOSE x \in Times : TRUE }) :
            Settle(run, out, st, t)

Reject ==
    \E run \in pending : \E out \in { o \in Outcomes : ~o.ok } :
        Settle(run, out, StoreOk, CHOOSE x \in Times : TRUE)

\* The user navigates away: the page instance is unmounted
Dispose ==
    /\ ~disposed
    /\ disposed' = TRUE
    \* a mounted AnalysisLoading is unmounted with the page
    /\ timer' = IF isRunning THEN Cleanup(timer) ELSE timer
    /\ emitted' = <<>>
    /\ last' = NoSettle
    /\ UNCHANGED << query, selectedFiles, isRunning, result, pending, requests,
                    history, nextId, calls, accepted, resultRun, currentStep,
                    routeVars, created, storage >>

\* advanceStep, called by an armed timeout of AnalysisLoading
TimerFire ==
    /\ timer
    /\ IF CanAdvance(currentStep)
       THEN /\ currentStep' = NextStep(currentStep)
            /\ timer' = TRUE
       ELSE /\ currentStep' = currentStep
            /\ timer' = FALSE
    /\ emitted' = <<>>
    /\ last' = NoSettle
    /\ UNCHANGED << query, selectedFiles, isRunning, result, disposed, pending,
                    requests, history, nextId, calls, accepted, resultRun,
                    routeVars, created, storage >>

Next ==
    \/ \E q \in Queries : SetQuery(q)
    \/ \E f \in Files : ToggleFile(f)
    \/ ClickRun
    \/ KeyRun
    \/ Resolve
    \/ Reject
    \/ Dispose

Spec == Init /\ [][Next]_vars

\* Every runQuery promise that is outstanding settles
FairSpec == Spec /\ WF_vars(Resolve \/ Reject)

\* Further documents offered by the file selector
MoreFiles == { "b.csv" }

\* The controller with a file selector that offers several documents
SelectNext ==
    \/ Next
    \/ \E f \in MoreFiles : ToggleFile(f)

SelectSpec == Init /\ [][SelectNext]_vars

\* The controller together with the timers of the Stage Choreographer
StageNext ==
    \/ Next
    \/ TimerFire

StageSpec == Init /\ [][StageNext]_vars

\* An armed timeout fires
StageFairSpec == StageSpec /\ WF_vars(TimerFire)

\* -------------------------------------------------------- the history route
\* The state of AnalysisPage and of its AnalysisLoading
pageVars == << query, selectedFiles, isRunning, result, disposed, pending, requests,
               nextId, calls, accepted, resultRun, stageVars >>

HistoryOp(op, id) == [op |-> op, rid |-> id, out |-> NoSettle.out, st |-> StoreOk]

\* A render of OpportunitiesTab on the detail page of id; f is the column
\* header that was clicked (Null: the tab was just selected)
RankOp(id, f) ==
    [op |-> "rank", rid |-> id, out |-> [NoSettle.out EXCEPT !.val = f], st |-> StoreOk]

\* The entry HistoryDetailPage looked up: getEntry(id)
DetailEntry == GetEntry(history, detailId)

\* The render of OpportunitiesTab for the result object r
HeapAfterRender(r, field, asc) ==
    [heap EXCEPT ![r] = IF heap[r] = <<>> THEN heap[r]
                        ELSE InputAfterRank(heap[r], field, asc)]

\* The remove button of the card at position i of HistoryList
ClickRemove(i) ==
    /\ disposed
    /\ detailId = 0
    /\ i \in 1..Len(history)
    /\ history' = RemoveEntry(history, RemoveArg(history, i))
    /\ emitted' = <<>>
    /\ storage' = Serialize(history')
    /\ last' = HistoryOp("remove", history[i].id)
    /\ UNCHANGED << pageVars, routeVars, created >>

\* handleClear of HistoryPage; the Clear All button is rendered when
\* history.length > 0
HandleClear ==
    /\ disposed
    /\ detailId = 0
    /\ Len(history) > 0
    /\ history' = ClearHistory(history)
    /\ emitted' = << ToastCleared >>
    /\ storage' = Serialize(history')
    /\ last' = HistoryOp("clear", Len(history))
    /\ UNCHANGED << pageVars, routeVars, created >>

\* Navigation to /history/[id]: the link of a card, or the address bar
OpenDetail(id) ==
    /\ disposed
    /\ detailId = 0
    /\ detailId' = id
    /\ emitted' = <<>>
    /\ last' = HistoryOp("open", id)
    /\ UNCHANGED << pageVars, history, tabOpen, sortField, sortAsc, heap, sorted,
                    created, storage >>

\* "Back to History": the detail page and its tabs are unmounted
CloseDetail ==
    /\ disposed
    /\ detailId # 0
    /\ detailId' = 0
    /\ tabOpen' = FALSE
    /\ sortField' = InitialSortField
    /\ sortAsc' = InitialSortAsc
    /\ emitted' = <<>>
    /\ sorted' = <<>>
    /\ last' = NoSettle
    /\ UNCHANGED << pageVars, history, heap, created, storage >>

\* The Opportunities tab is selected: OpportunitiesTab is mounted and rendered
SelectOpportunities ==
    /\ disposed
    /\ detailId # 0
    /\ DetailEntry # Undefined
    /\ ~tabOpen
    /\ tabOpen' = TRUE
    /\ sortField' = InitialSortField
    /\ sortAsc' = InitialSortAsc
    /\ heap' = HeapAfterRender(DetailEntry[1].result, InitialSortField, InitialSortAsc)
    /\ sorted' = Rendered(heap[DetailEntry[1].result], InitialSortField, InitialSortAsc)
    /\ emitted' = <<>>
    /\ last' = RankOp(detailId, Null)
    /\ UNCHANGED << pageVars, history, detailId, created, storage >>

\* A column header of the table: toggleSort(f), then the render with the new state
ToggleSort(f) ==
    /\ disposed
    /\ tabOpen
    /\ DetailEntry # Undefined
    /\ heap[DetailEntry[1].result] # <<>>
    /\ sortField' = ToggleSortState(sortField, sortAsc, f).field
    /\ sortAsc' = ToggleSortState(sortField, sortAsc, f).asc
    /\ heap' = HeapAfterRender(DetailEntry[1].result, sortField', sortAsc')
    /\ sorted' = Rendered(heap[DetailEntry[1].result], sortField', sortAsc')
    /\ emitted' = <<>>
    /\ last' = RankOp(detailId, f)
    /\ UNCHANGED << pageVars, history, detailId, tabOpen, created, storage >>

\* The controller together with the history pages
HistoryNext ==
    \/ Next
    \/ \E i \in 1..MaxCalls : ClickRemove(i)
    \/ HandleClear
    \/ \E id \in 1..nextId : OpenDetail(id)
    \/ CloseDetail
    \/ SelectOpportunities
    \/ \E f \in SortFields : ToggleSort(f)

HistorySpec == Init /\ [][HistoryNext]_vars

\* The browser reloads a page of the history route: the script context with
\* its outstanding requests and component state is gone, the history is read
\* again from the durable store
Reload ==
    /\ disposed
    /\ history' = LoadHistory(storage)
    /\ pending' = {}
    /\ tabOpen' = FALSE
    /\ sortField' = InitialSortField
    /\ sortAsc' = InitialSortAsc
    /\ sorted' = <<>>
    /\ emitted' = <<>>
    /\ last' = HistoryOp("reload", Len(history))
    /\ UNCHANGED << query, selectedFiles, isRunning, result, disposed, requests, nextId,
                    calls, accepted, resultRun, stageVars, detailId, heap, created,
                    storage >>

\* The controller, the list of HistoryPage and reloads
ReloadNext ==
    \/ Next
    \/ \E i \in 1..MaxCalls : ClickRemove(i)
    \/ HandleClear
    \/ Reload

ReloadSpec == Init /\ [][ReloadNext]_vars

\* ---------------------------------------------- the ranking on bounded inputs
\* Length of the opportunity lists explored
MaxOpps == 3

\* ScoredFeature values: scores 3 and 9, an absent score, a score that is
\* present and 0, a tie on score 3; a confidence outside the enum ("urgent")
Opp3 == [name |-> "B", rice_score |-> <<3>>, confidence |-> "low"]
Opp9 == [name |-> "a", rice_score |-> <<9>>, confidence |-> "high"]
OppNoScore == [name |-> "c", rice_score |-> Absent, confidence |-> "medium"]
OppZero == [name |-> "a", rice_score |-> <<0>>, confidence |-> "urgent"]
OppTie == [name |-> "c", rice_score |-> <<3>>, confidence |-> "high"]

Opps == { Opp3, Opp9, OppNoScore, OppZero, OppTie }

OppLists == UNION { [1..n -> Opps] : n \in 0..MaxOpps }

\* An entry stored by an earlier session, whose result holds any of the lists
StoredEntry ==
    [id |-> 1, query |-> <<" ", "a">>, files |-> <<>>, timestamp |-> 1000, result |-> "r1"]

\* The detail page of the stored entry after a fresh load
RankInit ==
    /\ query = <<>>
    /\ selectedFiles = <<>>
    /\ isRunning = FALSE
    /\ result = Null
    /\ disposed = TRUE
    /\ pending = {}
    /\ requests = 0
    /\ history = << StoredEntry >>
    /\ nextId = 2
    /\ emitted = <<>>
    /\ calls = 0
    /\ accepted = 0
    /\ resultRun = 0
    /\ last = NoSettle
    /\ currentStep = MountStep
    /\ timer = FALSE
    /\ detailId = 1
    /\ tabOpen = FALSE
    /\ sortField = InitialSortField
    /\ sortAsc = InitialSortAsc
    /\ heap \in { [r \in Results |-> IF r = "r1" THEN l ELSE <<>>] : l \in OppLists }
    /\ created = << AsCreated(StoredEntry) >>
    /\ storage = Serialize(<< StoredEntry >>)
    /\ sorted = <<>>

RankNext ==
    \/ SelectOpportunities
    \/ \E f \in SortFields : ToggleSort(f)
    \/ CloseDetail
    \/ \E id \in 1..nextId : OpenDetail(id)

RankSpec == RankInit /\ [][RankNext]_vars

\* Readings of Date.now() after the wall clock was set back
EarlierTimes == { 500 }

\* A run whose entry is built after the wall clock was set back
ResolveEarlier ==
    \E run \in pending : \E out \in { o \in Outcomes : o.ok } : \E t \in EarlierTimes :
        Settle(run, out, StoreOk, t)

\* The controller, a wall clock that is not monotonic, and the list of HistoryPage
OrderNext ==
    \/ Next
    \/ ResolveEarlier
    \/ \E i \in 1..MaxCalls : ClickRemove(i)
    \/ HandleClear

OrderSpec == Init /\ [][OrderNext]_vars

\* ------------------------------------------------------------ display layer
\* {isRunning && <AnalysisLoading />}
LoadingShown == ~disposed /\ isRunning

\* index === activeStep: the stage shown as active, -1 when no stage is shown
ActiveStage == IF LoadingShown THEN currentStep ELSE -1

\* {result && !isRunning && <AnalysisResults result={result} />}
DisplayedWhenStagesDone ==
    IF ~disposed /\ result # Null /\ ~isRunning /\ currentStep = NumStages - 1
    THEN result ELSE Null
Displayed == IF ~disposed /\ result # Null /\ ~isRunning THEN result ELSE Null

\* --------------------------------------------------- vocabulary of the claims
\* A query that is empty or consists of whitespace only
IsBlank(q) == \A i \in 1..Len(q) : IsSpace(q[i])

\* The last step was the continuation of a run after its request settled
Settled == last.op = "settle"

\* ... and that run ended in Succeeded (it raised the success notification)
Succeeded == Settled /\ emitted = << ToastSuccess >>

\* ... and that run ended in Failed (it raised a failure notification)
Failed == Settled /\ Len(emitted) = 1 /\ emitted[1].kind = "error"

\* The value caught by the catch block of the run settled last
Thrown == IF last.out.ok THEN last.st.err ELSE last.out.err

\* ------------------------------------------------------------------ claims

\* C1: last-submit-wins. In every reachable state the displayed result, if
\* there is one, is the response of the most recently submitted run; an
\* earlier run's late response is never applied.
C1_LastSubmitWins == Displayed # Null => resultRun = accepted

\* C2: at most one request to the remote pipeline is outstanding at any time
\* for one page instance: no sequence of Run clicks and Ctrl/Cmd+Enter presses
\* invokes submit while the controller is Running.
C2_AtMostOneOutstanding == Cardinality(pending) <= 1

\* C3: every accepted submit enters Running (its request is outstanding and
\* isRunning is set); when the request settles the run ends in exactly one of
\* Succeeded or Failed and Running is left, also when the history write
\* failed; given that requests settle, no run and no page stays in Running.
C3_RunLifecycle ==
    /\ [][accepted' # accepted =>
            /\ accepted' = accepted + 1
            /\ isRunning'
            /\ PendingRids' = PendingRids \cup { accepted' }
            /\ accepted' \notin PendingRids]_vars
    /\ [](Settled =>
            /\ Succeeded # Failed
            /\ last.rid \notin PendingRids
            /\ (~disposed => ~isRunning))
    /\ \A r \in 1..MaxCalls : (r \in PendingRids) ~> (r \notin PendingRids)
    /\ LoadingShown ~> ~LoadingShown

C3_Witness ==
    Settled /\ last.out.ok /\ ~last.st.ok /\ ~disposed /\ ~isRunning /\ Failed

\* C4: submit with an empty or whitespace-only query changes no controller
\* state (isRunning, displayed result, history) and issues no request.
C4_BlankSubmitIsNoOp ==
    [][(calls' = calls + 1 /\ IsBlank(query)) =>
          UNCHANGED << isRunning, result, history, pending, requests, accepted >>]_vars

C4_Witness == calls > accepted /\ query = <<" ", " ">>

\* C5: a run that ends in Succeeded leaves the History Cache with exactly one
\* more entry, at the head; its id differs from the id of every other entry,
\* its query and files are the ones submit was called with and its result is
\* the value the pipeline returned.
C5_SuccessAddsOneEntry ==
    [][Succeeded' =>
          \E run \in pending :
              /\ run.rid = last'.rid
              /\ Len(history') = Len(history) + 1
              /\ SubSeq(history', 2, Len(history')) = history
              /\ history'[1].query = run.query
              /\ history'[1].files = run.files
              /\ history'[1].result = last'.out.val
              /\ \A i \in 1..Len(history) : history[i].id # history'[1].id]_vars

C5_Witness == Succeeded /\ Len(history) = 2 /\ history[1].files # selectedFiles

\* C6: a run whose remote call rejects leaves the History Cache exactly as it
\* was: same entries, same order, same size.
C6_FailureKeepsHistory ==
    [][(Settled' /\ ~last'.out.ok) => history' = history]_vars

C6_Witness == Settled /\ ~last.out.ok /\ Len(history) = 1

\* C7: a canceled run never produces a history entry: when the page was
\* disposed while the request was outstanding, the late response is discarded,
\* no entry is appended and no result state is set.
C7_DisposedRunIsDiscarded ==
    [][(Settled' /\ disposed) => (history' = history /\ result' = result)]_vars

\* C8: when the remote call succeeds and addEntry fails with a persistence
\* error, the run's result is the displayed result once Running has ended and
\* the user is shown a failure notification carrying the persistence error.
C8_PersistenceErrorKeepsResult ==
    (Settled /\ last.out.ok /\ ~last.st.ok /\ ~disposed) =>
        /\ Displayed = last.out.val
        /\ emitted = << [kind |-> "error", text |-> last.st.err.message] >>

C8_Witness ==
    Settled /\ last.out.ok /\ ~last.st.ok /\ ~disposed /\ last.rid = 2

\* C9: every failed run raises exactly one failure notification and no
\* success notification; its text is the error's message when the thrown
\* value is an Error and the generic fallback text otherwise.
C9_FailureNotification ==
    (Settled /\ (~last.out.ok \/ ~last.st.ok)) =>
        emitted = << [kind |-> "error",
                      text |-> IF Thrown.isError THEN Thrown.message
                               ELSE "Analysis failed"] >>

C9_Witness == Failed /\ ~last.out.ok /\ ~Thrown.isError

\* C10: each accepted submit issues exactly one request to the remote
\* pipeline; a failure triggers no further request.
C10_OneRequestPerSubmit ==
    /\ requests = accepted
    /\ Cardinality(pending) <= requests

C10_Witness == Settled /\ ~last.out.ok /\ accepted = 2 /\ pending # {}

\* C11: disposing the Stage Choreographer (page unmount, result returned or
\* error) cancels the pending timer whichever stage it is in; afterwards the
\* stage index never changes again; a second disposal changes nothing more.
C11_DisposalStopsStages ==
    /\ [][~LoadingShown' => ~timer']_vars
    /\ [][(~LoadingShown /\ ~LoadingShown') => UNCHANGED stageVars]_vars

C11_Witness ==
    disposed /\ isRunning /\ ~timer /\ currentStep = 3 /\ Settled

\* C12: the stage index never decreases during a run: every change of the
\* index of a mounted choreographer is an increase by exactly one.
C12_StagesOnlyAdvance ==
    [][(LoadingShown /\ currentStep' # currentStep) => currentStep' = currentStep + 1]_vars

C12_Witness == LoadingShown /\ currentStep = NumStages - 1 /\ ~timer

\* C13: every accepted submit starts the Stage Choreographer from stage index
\* 0, also a submit accepted while the controller is already Running.
C13_SubmitRestartsStages ==
    [][accepted' # accepted => (LoadingShown' /\ ActiveStage' = 0)]_vars

\* C14: real completion is decoupled from the choreographer: the response of
\* a run becomes the displayed result in the step in which it arrives,
\* whatever the stage index is, and the choreographer reaching its last stage
\* never ends Running (only a settled request does).
C14_CompletionDecoupled ==
    /\ []((Settled /\ last.out.ok /\ ~disposed) => Displayed = last.out.val)
    /\ [][(isRunning /\ ~isRunning') => Settled']_vars

C14_Witness ==
    Settled /\ last.out.ok /\ ~disposed /\ currentStep = 2 /\ Displayed = last.out.val

\* ------------------------------------------------- claims on the History Cache
\* The ids of the entries that were ever added
CreatedIds == { created[j].entry.id : j \in 1..Len(created) }

\* The position of an id in the order of insertion
CreatedPos(id) == CHOOSE j \in 1..Len(created) : created[j].entry.id = id

\* The last step removed one entry / cleared the history / sorted opportunities
Removed == last.op = "remove"
Cleared == last.op = "clear"
Ranked == last.op = "rank"

\* C15: for an id that was added before, removeEntry(id) followed by
\* getEntry(id) yields not-found, whatever else happened before; the detail
\* page of such an id shows its placeholder and raises no error.
C15_RemovedIdIsNotFound ==
    /\ [][Removed' => GetEntry(history', last'.rid) = Undefined]_vars
    /\ []((detailId \in CreatedIds \ Ids(history)) =>
              DetailView(DetailEntry) = [kind |-> "placeholder", result |-> Null])

C15_Witness ==
    /\ detailId \in CreatedIds \ Ids(history)
    /\ Len(history) = 1
    /\ DetailView(DetailEntry).kind = "placeholder"

\* C16: clearHistory() followed by listEntries() yields the empty sequence
\* whatever the size was before, and no step leaves a history from which only
\* some of several entries have gone: a step that takes away more than one
\* entry takes away all.
C16_ClearEmptiesHistory ==
    /\ [][Cleared' => (history' = <<>> /\ HistoryPageView(history').kind = "empty")]_vars
    /\ [][Len(history') < Len(history) - 1 => history' = <<>>]_vars

C16_Witness == Cleared /\ last.rid = 2 /\ history = <<>> /\ emitted = << ToastCleared >>

\* C17: the list shows the surviving entries in reverse insertion order (most
\* recently added first) after any sequence of add, remove and clear,
\* whatever their timestamps are.
C17_NewestFirstByInsertion ==
    /\ Ids(history) \subseteq CreatedIds
    /\ \A i, j \in 1..Len(history) :
           i < j => CreatedPos(ListShown(history)[i]) > CreatedPos(ListShown(history)[j])
    /\ \A i \in 1..Len(Recent(history)) : Recent(history)[i].id = ListShown(history)[i]

C17_Witness ==
    /\ Len(history) = 2
    /\ history[1].timestamp < history[2].timestamp
    /\ CreatedPos(history[1].id) = 2

\* C18: removeEntry(id) deletes only the entry with that id; every other
\* entry stays, in the same relative order; with an id that no entry has it
\* changes nothing; it raises no error.
C18_RemoveOnlyThatEntry ==
    /\ [][Removed' =>
            /\ \E k \in 1..Len(history) :
                   /\ history[k].id = last'.rid
                   /\ history' = SubSeq(history, 1, k - 1) \o SubSeq(history, k + 1, Len(history))
            /\ emitted' = <<>>]_vars
    /\ [](\A id \in 1..nextId : id \notin Ids(history) => RemoveEntry(history, id) = history)

C18_Witness == Removed /\ Len(history) = 1 /\ last.rid > history[1].id

\* C19: ids are unique over the lifetime of the cache: no two entries of the
\* history share an id, and no two entries ever added share one, also when
\* the earlier one has been removed or cleared in between.
C19_IdsNeverReused ==
    /\ \A i, j \in 1..Len(history) : i # j => history[i].id # history[j].id
    /\ \A i, j \in 1..Len(created) : i # j => created[i].entry.id # created[j].entry.id

C19_Witness == Succeeded /\ Len(created) = 2 /\ Len(history) = 1 /\ disposed

\* C20: an entry is never mutated: as long as its id is in the history its
\* query, files, timestamp and result (with the opportunities the result
\* holds) are the ones it was created with; an id leaves the history only by
\* removeEntry of that id or by clearHistory.
C20_EntriesImmutable ==
    /\ [](\A i \in 1..Len(history) :
              \E j \in 1..Len(created) :
                  /\ created[j].entry = history[i]
                  /\ created[j].opps = heap[history[i].result])
    /\ [][\A id \in Ids(history) \ Ids(history') :
              (Removed' /\ last'.rid = id) \/ Cleared']_vars

C20_Witness ==
    /\ Ranked
    /\ sortField = "name"
    /\ sortAsc
    /\ DetailEntry # Undefined
    /\ Rank(heap[DetailEntry[1].result], sortField, sortAsc) # heap[DetailEntry[1].result]

\* ------------------------- claims on reload, ranking, stages and selection
\* The last step was a reload of a page of the history route
Reloaded == last.op = "reload"

RankInput == IF DetailEntry = Undefined THEN <<>> ELSE heap[DetailEntry[1].result]

\* The score a row is ordered by: its score, or 0 when it has none
KeyOf(o) == IF o.rice_score = <<>> THEN 0 ELSE o.rice_score[1]

\* out is inp rearranged by a permutation p under which rows appear in the
\* order Before, rows that Before does not separate keeping their input order
IsStableOrder(out, inp, Before(_, _)) ==
    /\ Len(out) = Len(inp)
    /\ \E p \in [1..Len(inp) -> 1..Len(inp)] :
           /\ \A i, j \in 1..Len(inp) : i # j => p[i] # p[j]
           /\ \A i \in 1..Len(inp) : out[i] = inp[p[i]]
           /\ \A i, j \in 1..Len(inp) :
                  i < j => \/ Before(out[i], out[j])
                           \/ (~Before(out[j], out[i]) /\ p[i] < p[j])

ScoreAscending(a, b) == KeyOf(a) < KeyOf(b)
ScoreDescending(a, b) == KeyOf(a) > KeyOf(b)

\* C22: ranking by rice_score compares numerically with an absent score taken
\* as 0: scores [3, 9, absent] come out as [9, 3, absent] descending and as
\* [absent, 3, 9] ascending, and for every input the rows are the input sorted
\* (stably) by that key.
C22_RankByScore ==
    (tabOpen /\ sortField = "rice_score" /\ RankInput # <<>>) =>
        /\ IF sortAsc THEN IsStableOrder(sorted, RankInput, ScoreAscending)
                      ELSE IsStableOrder(sorted, RankInput, ScoreDescending)
        /\ RankInput = << Opp3, Opp9, OppNoScore >> =>
               sorted = IF sortAsc THEN << OppNoScore, Opp3, Opp9 >>
                        ELSE << Opp9, Opp3, OppNoScore >>

C22_Witness ==
    /\ tabOpen /\ sortField = "rice_score" /\ sortAsc
    /\ RankInput = << Opp3, Opp9, OppNoScore >>
    /\ sorted = << OppNoScore, Opp3, Opp9 >>

HasScore(o) == o.rice_score # <<>>

\* C23 (as stated): an opportunity without a score sorts as lowest: under
\* ascending rice_score ranking no row with a present score stands before a
\* row without a score, for every input list.
C23_AbsentSortsLowest ==
    (tabOpen /\ sortField = "rice_score" /\ sortAsc) =>
        \A i, j \in 1..Len(sorted) :
            i < j => ~(HasScore(sorted[i]) /\ ~HasScore(sorted[j]))

\* C23 (amended): under ascending rice_score ranking no row with a present
\* score greater than 0 stands before a row without a score; a row whose
\* score is present and 0 ties with the rows without a score and keeps its
\* input position among them.
C23_AbsentBelowPositive ==
    (tabOpen /\ sortField = "rice_score" /\ sortAsc) =>
        \A i, j \in 1..Len(sorted) :
            i < j => ~(HasScore(sorted[i]) /\ KeyOf(sorted[i]) > 0 /\ ~HasScore(sorted[j]))

C23_Witness ==
    /\ tabOpen /\ sortField = "rice_score" /\ sortAsc
    /\ RankInput = << Opp9, OppZero, OppNoScore >>
    /\ sorted = << OppZero, OppNoScore, Opp9 >>

\* The ordinal of the claim: high 3, medium 2, low 1, anything else 0
Recognized == { "high", "medium", "low" }
Ordinal(o) ==
    IF o.confidence = "high" THEN 3
    ELSE IF o.confidence = "medium" THEN 2
    ELSE IF o.confidence = "low" THEN 1
    ELSE 0

OrdinalAscending(a, b) == Ordinal(a) < Ordinal(b)
OrdinalDescending(a, b) == Ordinal(a) > Ordinal(b)

\* C24: ranking by confidence uses the ordinal high=3, medium=2, low=1 and 0
\* for any other value: [low, high, medium] comes out as [high, medium, low]
\* descending, and descending no row with an unrecognized confidence stands
\* before a row with a recognized one.
C24_RankByConfidence ==
    (tabOpen /\ sortField = "confidence" /\ RankInput # <<>>) =>
        /\ IF sortAsc THEN IsStableOrder(sorted, RankInput, OrdinalAscending)
                      ELSE IsStableOrder(sorted, RankInput, OrdinalDescending)
        /\ ~sortAsc =>
               /\ \A i, j \in 1..Len(sorted) :
                      i < j => ~(sorted[i].confidence \notin Recognized
                                 /\ sorted[j].confidence \in Recognized)
               /\ RankInput = << Opp3, Opp9, OppNoScore >> =>
                      sorted = << Opp9, OppNoScore, Opp3 >>

C24_Witness ==
    /\ tabOpen /\ sortField = "confidence" /\ ~sortAsc
    /\ RankInput = << OppZero, Opp3, Opp9 >>
    /\ sorted = << Opp9, Opp3, OppZero >>

\* out holds the same rows as inp, each as often
IsPermutation(out, inp) ==
    /\ Len(out) = Len(inp)
    /\ \A o \in Opps :
           Cardinality({ i \in 1..Len(out) : out[i] = o })
               = Cardinality({ i \in 1..Len(inp) : inp[i] = o })

\* C25: ranking is side-effect-free: for every field and direction the input
\* list (and with it the result stored in the entry) has the same rows in the
\* same order after the ranking as before, and the ranked rows are a
\* permutation of the input.
C25_RankingLeavesInput ==
    /\ [][Ranked' => (heap' = heap /\ IsPermutation(sorted', RankInput))]_vars
    /\ [](heap[StoredEntry.result] = created[1].opps)

C25_Witness ==
    /\ Ranked /\ sortField = "name" /\ sortAsc
    /\ RankInput = << OppNoScore, Opp3, Opp9 >>
    /\ sorted = << Opp9, Opp3, OppNoScore >>

\* C30: the sort control starts at (rice_score, descending); choosing the
\* active field flips only the direction; choosing another field selects it
\* and sets the direction to descending, whatever it was before.
C30_SortControl ==
    /\ [][(~tabOpen /\ tabOpen') => (sortField' = "rice_score" /\ ~sortAsc')]_vars
    /\ [][(tabOpen /\ Ranked') =>
             IF last'.out.val = sortField
             THEN sortField' = sortField /\ sortAsc' = ~sortAsc
             ELSE sortField' = last'.out.val /\ ~sortAsc']_vars

C30_Witness ==
    /\ Ranked /\ last.out.val = "confidence"
    /\ sortField = "confidence" /\ sortAsc

\* C26: the stage index stays within 0..N-1; a choreographer that is not
\* disposed eventually shows stage N-1 (given that its timers fire); at N-1
\* the index does not change any more until the disposal.
C26_StagesBounded ==
    /\ [](currentStep \in 0..(NumStages - 1))
    /\ LoadingShown ~> (~LoadingShown \/ ActiveStage = NumStages - 1)
    /\ [][(LoadingShown /\ LoadingShown' /\ currentStep = NumStages - 1) =>
             currentStep' = currentStep]_vars

C26_Witness ==
    LoadingShown /\ ActiveStage = NumStages - 1 /\ ~timer /\ accepted = 2 /\ pending # {}

\* C27: the entry written by a successful run carries the query text and the
\* file selection as they were when submit was called, also when the user
\* edited the query or toggled files while the request was outstanding.
C27_EntryCarriesSubmittedInput ==
    /\ [][accepted' # accepted =>
             \E run \in pending' \ pending :
                 run.rid = accepted' /\ run.query = query /\ run.files = selectedFiles]_vars
    /\ [][(query' # query \/ selectedFiles' # selectedFiles) => pending' = pending]_vars
    /\ [][Succeeded' =>
             \E run \in pending \ pending' :
                 /\ run.rid = last'.rid
                 /\ history'[1].query = run.query
                 /\ history'[1].files = run.files]_vars

C27_Witness ==
    Succeeded /\ history[1].query # query /\ history[1].files # selectedFiles

\* C28 (as stated): the loading view is shown exactly when a request is
\* outstanding, the loading view and a result are never shown together, and
\* no result is displayed while a request is outstanding.
C28_LoadingIffOutstanding ==
    ~disposed =>
        /\ LoadingShown <=> pending # {}
        /\ ~(LoadingShown /\ Displayed # Null)
        /\ pending # {} => Displayed = Null

\* The set of the selected file names
Selected(sel) == { sel[i] : i \in 1..Len(sel) }

\* C29: the selection never holds a file name twice; toggling the same file
\* twice restores the same set of selected files; submit leaves the selection
\* and the query text unchanged.
C29_SelectionIsASet ==
    /\ [](\A i, j \in 1..Len(selectedFiles) : i # j => selectedFiles[i] # selectedFiles[j])
    /\ [](\A f \in Files \cup MoreFiles :
              Selected(Toggle(Toggle(selectedFiles, f), f)) = Selected(selectedFiles))
    /\ [][calls' # calls => UNCHANGED << query, selectedFiles >>]_vars

C29_Witness ==
    /\ Len(selectedFiles) = 2
    /\ calls = 1 /\ accepted = 1
    /\ Toggle(Toggle(selectedFiles, selectedFiles[1]), selectedFiles[1]) # selectedFiles

====
